---- MODULE Spec2Model ----
(***************************************************************************)
(* cert-decoder: src/src/main.rs.                                          *)
(*                                                                         *)
(* execute(processor, args) is modelled one statement group per action:    *)
(* argument check, is_file query, read_to_string, pem_to_der,              *)
(* parse_x509_der, format + println.  The FileProcessor is the trait of    *)
(* lines 7-10: what it answers is chosen by the environment when execute   *)
(* calls it.  pem_to_der and parse_x509_der belong to the x509_parser      *)
(* crate, which is not part of the repository; they are modelled as the    *)
(* nom-style prefix parsers their use at lines 45-46 shows (they return    *)
(* the unconsumed remainder with the value).                               *)
(*                                                                         *)
(* A file is a sequence of text lines, DER bytes are a sequence of DER     *)
(* elements, standard output is the sequence of writes made to it.         *)
(***************************************************************************)
EXTENDS Integers, Sequences, FiniteSets, TLC

VARIABLES
    args,          \* the Vec<String> handed to execute
    pc,            \* the statement execute is at; "done" once it has returned
    path,          \* let path = &args[0]           (<<>> until bound)
    cert,          \* let cert = read_to_string(..)? (<<>> until bound, else <<text>>)
    pem,           \* let (_, pem) = ..              (<<>> until bound)
    parsed_cert,   \* let (_, parsed_cert) = ..      (<<>> until bound)
    result,        \* what execute returned
    stdout,        \* the writes made to standard output by this invocation
    trace,         \* the calls execute made, in order, with their argument
    answers,       \* what the FileProcessor answered in this invocation
    replay,        \* <<>>, or the previous invocation being repeated on the same input
    invocation,    \* how many times the tool has been invoked on the present input
    pem_skips      \* whether the linked pem_to_der skips text before the BEGIN line

vars == <<args, pc, path, cert, pem, parsed_cert, result, stdout, trace,
          answers, replay, invocation, pem_skips>>

----------------------------------------------------------------------------
(* Bounds *)

MaxArgs == 2
MaxLines == 4
MaxTrail == 3
MaxInvocations == 2

SeqsUpTo(S, n) == UNION {[1..k -> S] : k \in 0..n}

----------------------------------------------------------------------------
(* Errors: Box<dyn std::error::Error>, by origin and displayed text *)

NoErr == [kind |-> "", text |-> ""]

USAGE_MSG == "Error: did not receive a single argument, please invoke cert-decoder as follows: ./cert-decoder /path/to/cert."

PATH_MSG == "Error: path given as argument is not a regular file, it must be a path to a certificate!"

\* String::into(): a boxed error whose Display is the string itself
StringError(msg) == [kind |-> "String", text |-> msg]

Display(e) == e.text

\* Result<(), Box<dyn Error>>
Running == [status |-> "running", err |-> NoErr]
Ok == [status |-> "ok", err |-> NoErr]
Err(e) == [status |-> "err", err |-> e]

----------------------------------------------------------------------------
(* Invocation arguments *)

Paths == {"google.com.crt", "does-not-exist"}

ArgLists == SeqsUpTo(Paths, MaxArgs)

----------------------------------------------------------------------------
(* Certificates, DER elements and the text lines of a file *)

NoTbs == [serial |-> "", issuer |-> "", subject |-> ""]

TbsA == [serial |-> "01", issuer |-> "CN=GTS CA", subject |-> "CN=google.com"]

TbsB == [serial |-> "02", issuer |-> "CN=Root", subject |-> "CN=example.org"]

\* one DER element: a certificate SEQUENCE, or something else
DerCert(tbs, sig) == [tag |-> "SEQUENCE", tbs |-> tbs, sig |-> sig]

DerOther == [tag |-> "OCTET STRING", tbs |-> NoTbs, sig |-> ""]

BEGIN_CERT == "-----BEGIN CERTIFICATE-----"

END_CERT == "-----END CERTIFICATE-----"

\* base64 text lines and the DER elements they encode
B64_CERT_A == "MIIA"

B64_CERT_B == "MIIB"

B64_OTHER == "BAAA"

B64Lines == {B64_CERT_A, B64_CERT_B, B64_OTHER}

\* a text line that is neither a marker nor base64
TEXT_LINE == "[package] name = cert-decoder"

Lines == {BEGIN_CERT, END_CERT, TEXT_LINE} \cup B64Lines

Base64Decode(l) ==
    CASE l = B64_CERT_A -> <<DerCert(TbsA, "sigA")>>
      [] l = B64_CERT_B -> <<DerCert(TbsB, "sigB")>>
      [] l = B64_OTHER -> <<DerOther>>

\* a PEM block whose body is one base64 line holding a certificate
CertBlocks == {<<BEGIN_CERT, l, END_CERT>> : l \in {B64_CERT_A, B64_CERT_B}}

\* the file contents considered: every text of up to MaxLines lines, and every
\* certificate block followed by up to MaxTrail further lines
FileContents ==
    SeqsUpTo(Lines, MaxLines)
        \cup {b \o t : b \in CertBlocks, t \in SeqsUpTo(Lines, MaxTrail)}

----------------------------------------------------------------------------
(* FileProcessor: what the two capabilities may answer *)

IoErrors == {[kind |-> "io", text |-> "No such file or directory (os error 2)"],
             [kind |-> "io", text |-> "Permission denied (os error 13)"]}

ReadOk(text) == [ok |-> TRUE, val |-> text, err |-> NoErr]

ReadErr(e) == [ok |-> FALSE, val |-> <<>>, err |-> e]

ReadResults == {ReadOk(c) : c \in FileContents} \cup {ReadErr(e) : e \in IoErrors}

NoAnswers == [is_file |-> <<>>, read |-> <<>>]

\* is_file(&self, path) -> bool: any answer, or the recorded one when the
\* previous invocation is being repeated
IsFileAnswers ==
    IF replay # <<>> /\ Len(replay[1].answers.is_file) > Len(answers.is_file)
    THEN {replay[1].answers.is_file[Len(answers.is_file) + 1]}
    ELSE BOOLEAN

\* read_to_string(&self, path) -> Result<String, Box<dyn Error>>
ReadAnswers ==
    IF replay # <<>> /\ Len(replay[1].answers.read) > Len(answers.read)
    THEN {replay[1].answers.read[Len(answers.read) + 1]}
    ELSE ReadResults

----------------------------------------------------------------------------
(* x509_parser::pem::pem_to_der: IResult<&[u8], Pem, PEMError> *)

NoPem == [label |-> "", contents |-> <<>>]

PemOk(rem, p) == [ok |-> TRUE, rem |-> rem, val |-> p, err |-> NoErr]

PemErr(e) == [ok |-> FALSE, rem |-> <<>>, val |-> NoPem,
              err |-> [kind |-> "pem", text |-> e]]

\* index of the first line from `from` on that satisfies the marker, 0 if none
FirstIndex(i, from, marker) ==
    LET hits == {k \in from..Len(i) : i[k] = marker}
    IN  IF hits = {} THEN 0 ELSE CHOOSE k \in hits : \A j \in hits : k <= j

RECURSIVE DecodeBody(_)
DecodeBody(body) ==
    IF body = <<>> THEN <<>> ELSE Base64Decode(Head(body)) \o DecodeBody(Tail(body))

PemToDer(i, skips) ==
    LET b == IF skips THEN FirstIndex(i, 1, BEGIN_CERT)
             ELSE IF i # <<>> /\ i[1] = BEGIN_CERT THEN 1 ELSE 0
    IN  IF b = 0 THEN PemErr("MissingHeader")
        ELSE LET e == FirstIndex(i, b + 1, END_CERT)
             IN  IF e = 0 THEN PemErr("IncompletePEM")
                 ELSE LET body == SubSeq(i, b + 1, e - 1)
                      IN  IF \E k \in 1..Len(body) : body[k] \notin B64Lines
                          THEN PemErr("Base64DecodeError")
                          ELSE PemOk(SubSeq(i, e + 1, Len(i)),
                                     [label |-> "CERTIFICATE",
                                      contents |-> DecodeBody(body)])

----------------------------------------------------------------------------
(* x509_parser::parse_x509_der: IResult<&[u8], X509Certificate, X509Error> *)

NoCert == [tbs_certificate |-> NoTbs, signature_value |-> ""]

X509Ok(rem, c) == [ok |-> TRUE, rem |-> rem, val |-> c, err |-> NoErr]

X509Err(e) == [ok |-> FALSE, rem |-> <<>>, val |-> NoCert,
               err |-> [kind |-> "x509", text |-> e]]

ParseX509Der(i) ==
    IF i = <<>> THEN X509Err("Incomplete")
    ELSE IF i[1].tag # "SEQUENCE" THEN X509Err("InvalidCertificate")
    ELSE X509Ok(Tail(i), [tbs_certificate |-> i[1].tbs, signature_value |-> i[1].sig])

----------------------------------------------------------------------------
(* execute, lines 25-52 *)

Call(op, arg) == [op |-> op, arg |-> arg]

\* variant: only the empty argument list is refused
SingleArgument_AtLeastOne(a) == Len(a) >= 1

\* line 30, negated: args.len() != 1 is the error case
SingleArgument(a) == Len(a) = 1

\* variant: the negation is missing
NotAFile_NoNegation(ans) == ans

\* line 38: !processor.is_file(path)
NotAFile(ans) == ~ans

\* variant: the text carries a per-run stamp
DebugFmt_Stamped(tbs) ==
    <<"TbsCertificate {", "serial:", tbs.serial, "issuer:", tbs.issuer,
      "subject:", tbs.subject, "}", ToString(invocation)>>

\* format!("{:#?}", ..): the pretty debug text of a TbsCertificate
DebugFmt(tbs) ==
    <<"TbsCertificate {", "serial:", tbs.serial, "issuer:", tbs.issuer,
      "subject:", tbs.subject, "}">>

\* variant: the whole certificate is rendered, signature included
Rendered_WholeCert(c) ==
    <<"X509Certificate {">> \o <<"TbsCertificate {", "serial:", c.tbs_certificate.serial,
       "issuer:", c.tbs_certificate.issuer, "subject:", c.tbs_certificate.subject, "}">>
        \o <<"signature_value:", c.signature_value, "}">>

\* line 47: the output is the rendering of parsed_cert.tbs_certificate
Rendered(c) == DebugFmt(c.tbs_certificate)

\* println!("{}", output): one write of the text and a newline
Println(out, text) == Append(out, text \o <<"\n">>)

\* variant: the path is queried before the argument count is judged
CheckArgs_QueryFirst ==
    /\ pc = "args"
    /\ trace' = IF Len(args) >= 1 THEN Append(trace, Call("is_file", args[1])) ELSE trace
    /\ IF Len(args) # 1
       THEN /\ result' = Err(StringError(USAGE_MSG))
            /\ pc' = "done"
            /\ path' = path
            /\ UNCHANGED answers
       ELSE /\ path' = <<args[1]>>
            /\ \E ans \in IsFileAnswers :
                  /\ answers' = [answers EXCEPT !.is_file = Append(@, ans)]
                  /\ IF ~ans
                     THEN /\ result' = Err(StringError(PATH_MSG))
                          /\ pc' = "done"
                     ELSE /\ pc' = "read"
                          /\ result' = result
    /\ UNCHANGED <<args, cert, pem, parsed_cert, stdout, replay, invocation, pem_skips>>

\* lines 29-35
CheckArgs ==
    /\ pc = "args"
    /\ IF ~SingleArgument(args)
       THEN /\ result' = Err(StringError(USAGE_MSG))
            /\ pc' = "done"
            /\ path' = path
       ELSE /\ path' = <<args[1]>>
            /\ pc' = "is_file"
            /\ result' = result
    /\ UNCHANGED <<args, cert, pem, parsed_cert, stdout, trace, answers,
                   replay, invocation, pem_skips>>

\* lines 37-41
CheckIsFile ==
    /\ pc = "is_file"
    /\ \E ans \in IsFileAnswers :
          /\ trace' = Append(trace, Call("is_file", path[1]))
          /\ answers' = [answers EXCEPT !.is_file = Append(@, ans)]
          /\ IF NotAFile(ans)
             THEN /\ result' = Err(StringError(PATH_MSG))
                  /\ pc' = "done"
             ELSE /\ pc' = "read"
                  /\ result' = result
    /\ UNCHANGED <<args, path, cert, pem, parsed_cert, stdout, replay,
                   invocation, pem_skips>>

\* variant: the text read is echoed before it is decoded
ReadFile_Echo ==
    /\ pc = "read"
    /\ \E r \in ReadAnswers :
          /\ trace' = Append(trace, Call("read_to_string", path[1]))
          /\ answers' = [answers EXCEPT !.read = Append(@, r)]
          /\ IF ~r.ok
             THEN /\ result' = Err(r.err)
                  /\ pc' = "done"
                  /\ cert' = cert
                  /\ stdout' = stdout
             ELSE /\ cert' = <<r.val>>
                  /\ pc' = "pem"
                  /\ result' = result
                  /\ stdout' = Println(stdout, r.val)
    /\ UNCHANGED <<args, path, pem, parsed_cert, replay, invocation, pem_skips>>

\* variant: a failed read is tried once more
ReadFile_Retry ==
    /\ pc = "read"
    /\ \E r \in ReadAnswers :
          /\ trace' = Append(trace, Call("read_to_string", path[1]))
          /\ answers' = [answers EXCEPT !.read = Append(@, r)]
          /\ IF ~r.ok /\ answers.read = <<>>
             THEN /\ pc' = "read"
                  /\ result' = result
                  /\ cert' = cert
             ELSE IF ~r.ok
             THEN /\ result' = Err(r.err)
                  /\ pc' = "done"
                  /\ cert' = cert
             ELSE /\ cert' = <<r.val>>
                  /\ pc' = "pem"
                  /\ result' = result
    /\ UNCHANGED <<args, path, pem, parsed_cert, stdout, replay, invocation,
                   pem_skips>>

\* line 44: let cert = processor.read_to_string(path)?;
ReadFile ==
    /\ pc = "read"
    /\ \E r \in ReadAnswers :
          /\ trace' = Append(trace, Call("read_to_string", path[1]))
          /\ answers' = [answers EXCEPT !.read = Append(@, r)]
          /\ IF ~r.ok
             THEN /\ result' = Err(r.err)
                  /\ pc' = "done"
                  /\ cert' = cert
             ELSE /\ cert' = <<r.val>>
                  /\ pc' = "pem"
                  /\ result' = result
    /\ UNCHANGED <<args, path, pem, parsed_cert, stdout, replay, invocation,
                   pem_skips>>

\* variant: the decode error is dropped and the (empty) value used
PemDecode_Unchecked ==
    /\ pc = "pem"
    /\ LET r == PemToDer(cert[1], pem_skips)
       IN  /\ trace' = Append(trace, Call("pem_to_der", ""))
           /\ pem' = <<r.val>>
           /\ pc' = "x509"
           /\ result' = result
    /\ UNCHANGED <<args, path, cert, parsed_cert, stdout, answers, replay,
                   invocation, pem_skips>>

\* variant: text left over after the first block is refused
PemDecode_RejectTrailing ==
    /\ pc = "pem"
    /\ LET r == PemToDer(cert[1], pem_skips)
       IN  /\ trace' = Append(trace, Call("pem_to_der", ""))
           /\ IF ~r.ok
              THEN /\ result' = Err(r.err)
                   /\ pc' = "done"
                   /\ pem' = pem
              ELSE IF r.rem # <<>>
              THEN /\ result' = Err(StringError("Error: trailing data after certificate"))
                   /\ pc' = "done"
                   /\ pem' = pem
              ELSE /\ pem' = <<r.val>>
                   /\ pc' = "x509"
                   /\ result' = result
    /\ UNCHANGED <<args, path, cert, parsed_cert, stdout, answers, replay,
                   invocation, pem_skips>>

\* line 45: let (_, pem) = pem_to_der(cert.as_bytes())?;
PemDecode ==
    /\ pc = "pem"
    /\ LET r == PemToDer(cert[1], pem_skips)
       IN  /\ trace' = Append(trace, Call("pem_to_der", ""))
           /\ IF ~r.ok
              THEN /\ result' = Err(r.err)
                   /\ pc' = "done"
                   /\ pem' = pem
              ELSE /\ pem' = <<r.val>>
                   /\ pc' = "x509"
                   /\ result' = result
    /\ UNCHANGED <<args, path, cert, parsed_cert, stdout, answers, replay,
                   invocation, pem_skips>>

\* variant: the parse error is dropped and the (empty) certificate printed
ParseCert_Unchecked ==
    /\ pc = "x509"
    /\ LET r == ParseX509Der(pem[1].contents)
       IN  /\ trace' = Append(trace, Call("parse_x509_der", ""))
           /\ parsed_cert' = <<r.val>>
           /\ pc' = "print"
           /\ result' = result
    /\ UNCHANGED <<args, path, cert, pem, stdout, answers, replay,
                   invocation, pem_skips>>

\* line 46: let (_, parsed_cert) = parse_x509_der(&pem.contents)?;
ParseCert ==
    /\ pc = "x509"
    /\ LET r == ParseX509Der(pem[1].contents)
       IN  /\ trace' = Append(trace, Call("parse_x509_der", ""))
           /\ IF ~r.ok
              THEN /\ result' = Err(r.err)
                   /\ pc' = "done"
                   /\ parsed_cert' = parsed_cert
              ELSE /\ parsed_cert' = <<r.val>>
                   /\ pc' = "print"
                   /\ result' = result
    /\ UNCHANGED <<args, path, cert, pem, stdout, answers, replay,
                   invocation, pem_skips>>

\* lines 47-51
PrintOutput ==
    /\ pc = "print"
    /\ LET output == Rendered(parsed_cert[1])
       IN  stdout' = Println(stdout, output)
    /\ trace' = Append(trace, Call("println", ""))
    /\ result' = Ok
    /\ pc' = "done"
    /\ UNCHANGED <<args, path, cert, pem, parsed_cert, answers, replay,
                   invocation, pem_skips>>

----------------------------------------------------------------------------
(* main, lines 54-58: each invocation of the tool runs execute once, on a  *)
(* fresh process                                                           *)

Outcome == [args |-> args, answers |-> answers, result |-> result, stdout |-> stdout]

Entered(a) ==
    /\ args' = a
    /\ pc' = "args"
    /\ path' = <<>>
    /\ cert' = <<>>
    /\ pem' = <<>>
    /\ parsed_cert' = <<>>
    /\ result' = Running
    /\ stdout' = <<>>
    /\ trace' = <<>>
    /\ answers' = NoAnswers
    /\ pem_skips' = pem_skips

\* the tool is invoked on some arguments
Invoke ==
    /\ pc = "done"
    /\ \E a \in ArgLists : Entered(a)
    /\ replay' = <<>>
    /\ invocation' = 1

\* the tool is invoked again with the same arguments, on the same files
Reinvoke ==
    /\ pc = "done"
    /\ invocation < MaxInvocations
    /\ Entered(args)
    /\ replay' = <<Outcome>>
    /\ invocation' = invocation + 1

Init ==
    /\ args \in ArgLists
    /\ pc = "args"
    /\ path = <<>>
    /\ cert = <<>>
    /\ pem = <<>>
    /\ parsed_cert = <<>>
    /\ result = Running
    /\ stdout = <<>>
    /\ trace = <<>>
    /\ answers = NoAnswers
    /\ replay = <<>>
    /\ invocation = 1
    /\ pem_skips \in BOOLEAN

Step == CheckArgs \/ CheckIsFile \/ ReadFile \/ PemDecode \/ ParseCert \/ PrintOutput

Next == Step \/ Invoke \/ Reinvoke

Spec == Init /\ [][Next]_vars

----------------------------------------------------------------------------
(* Properties *)

Done == pc = "done"

Failed == result.status = "err"

Called(op) == \E k \in 1..Len(trace) : trace[k].op = op

\* the text the content's first certificate block must produce
FirstLine(out) == <<out \o <<"\n">>>>

\* the read answered in this run with Ok(text)
ReadText == answers.read # <<>> /\ answers.read[1].ok

\* C1: whenever execute has returned on an argument list whose length is not 1
\* (empty, or two or more paths of any content), the result is an error that
\* displays exactly the usage message; such a run never gets past the argument
\* check, so no FileProcessor answer can influence it.
C1_UsageError ==
    Len(args) # 1 =>
        /\ pc \in {"args", "done"}
        /\ Done =>
              /\ Failed
              /\ Display(result.err) = "Error: did not receive a single argument, please invoke cert-decoder as follows: ./cert-decoder /path/to/cert."

C1_Witness ==
    /\ Done
    /\ Len(args) = 2
    /\ args[1] # args[2]
    /\ Display(result.err) = USAGE_MSG

\* C2: on a single argument, once is_file has answered false the run has ended in
\* an error that displays exactly the path message, whatever the path is, and
\* read_to_string was not asked.
C2_PathError ==
    (Len(args) = 1 /\ answers.is_file # <<>> /\ ~answers.is_file[1]) =>
        /\ Done
        /\ Failed
        /\ Display(result.err) = "Error: path given as argument is not a regular file, it must be a path to a certificate!"
        /\ answers.read = <<>>

C2_Witness ==
    /\ Done
    /\ args = <<"google.com.crt">>
    /\ answers.is_file = <<FALSE>>
    /\ Display(result.err) = PATH_MSG

\* text with no BEGIN marker at all (the empty text included) is not PEM
NoArmor(c) == \A k \in 1..Len(c) : c[k] # BEGIN_CERT

\* C3: on a single argument with is_file true, once the PEM step has run on text
\* that is not valid PEM (the decoder refuses it; in particular the empty text and
\* any text without a BEGIN line), the run has ended in the decoder's error, the
\* X.509 parse was never called and nothing was written to standard output.
C3_DecodeError ==
    (cert # <<>> /\ pc # "pem"
        /\ (~PemToDer(cert[1], pem_skips).ok \/ NoArmor(cert[1]))) =>
        /\ Done
        /\ Failed
        /\ result.err = PemToDer(cert[1], pem_skips).err
        /\ result.err.kind = "pem"
        /\ ~Called("parse_x509_der")
        /\ stdout = <<>>

C3_Witness ==
    /\ Done
    /\ answers.is_file = <<TRUE>>
    /\ cert = << <<>> >>
    /\ result.err.kind = "pem"

\* C4: once the parse step has run on PEM-decoded bytes that are not a DER
\* certificate (no bytes, or a first element that is no certificate), the run has
\* ended in the parser's error and nothing was written to standard output.
C4_ParseError ==
    (pem # <<>> /\ pc # "x509"
        /\ (pem[1].contents = <<>> \/ pem[1].contents[1].tag # "SEQUENCE")) =>
        /\ Done
        /\ Failed
        /\ result.err.kind = "x509"
        /\ result.err = ParseX509Der(pem[1].contents).err
        /\ ~Called("println")
        /\ stdout = <<>>

C4_Witness ==
    /\ Done
    /\ cert = << <<BEGIN_CERT, B64_OTHER, END_CERT>> >>
    /\ result.err.kind = "x509"
    /\ stdout = <<>>

\* the text is a PEM-encoded certificate for the linked decoder and parser
ValidCertFile(c) ==
    /\ PemToDer(c, pem_skips).ok
    /\ ParseX509Der(PemToDer(c, pem_skips).val.contents).ok

CertOf(c) == ParseX509Der(PemToDer(c, pem_skips).val.contents).val

\* C5: when execute has returned on a single argument with is_file true and the
\* text read is a valid PEM-encoded certificate, it returned Ok and standard output
\* holds exactly one write: the non-empty pretty debug text of the certificate's
\* tbs_certificate followed by a newline.
C5_Success ==
    (Done /\ Len(args) = 1 /\ answers.is_file = <<TRUE>> /\ ReadText
        /\ ValidCertFile(answers.read[1].val)) =>
        /\ result = Ok
        /\ DebugFmt(CertOf(answers.read[1].val).tbs_certificate) # <<>>
        /\ stdout = FirstLine(DebugFmt(CertOf(answers.read[1].val).tbs_certificate))

C5_Witness ==
    /\ Done
    /\ cert = << <<BEGIN_CERT, B64_CERT_A, END_CERT>> >>
    /\ result = Ok
    /\ stdout = FirstLine(DebugFmt(TbsA))

\* C6: standard output holds at most one write; it holds one only when the
\* argument check, is_file, the read, the PEM decode and the parse have all
\* succeeded in this run; a run that ended in an error wrote nothing.
C6_NoPartialOutput ==
    /\ Len(stdout) <= 1
    /\ Failed => stdout = <<>>
    /\ stdout # <<>> =>
          /\ Len(args) = 1
          /\ answers.is_file = <<TRUE>>
          /\ ReadText
          /\ Len(answers.read) = 1
          /\ ValidCertFile(answers.read[1].val)
          /\ parsed_cert = <<CertOf(answers.read[1].val)>>
          /\ Done
          /\ result = Ok

C6_Witness ==
    /\ Done
    /\ invocation = 2
    /\ Len(stdout) = 1
    /\ result = Ok

\* C7: once read_to_string has failed, execute has returned exactly that error,
\* after one is_file query and one read_to_string call on the sole argument and
\* nothing else: no second read, no second is_file, no decode, parse or output.
C7_ReadError ==
    (answers.read # <<>> /\ ~answers.read[1].ok) =>
        /\ Done
        /\ result = Err(answers.read[1].err)
        /\ trace = <<Call("is_file", args[1]), Call("read_to_string", args[1])>>
        /\ Len(answers.read) = 1
        /\ Len(answers.is_file) = 1
        /\ stdout = <<>>

C7_Witness ==
    /\ Done
    /\ answers.is_file = <<TRUE>>
    /\ answers.read # <<>>
    /\ answers.read[1] \in {ReadErr(e) : e \in IoErrors}
    /\ result.err.kind = "io"

Pipeline(p) ==
    <<Call("is_file", p), Call("read_to_string", p), Call("pem_to_der", ""),
      Call("parse_x509_der", ""), Call("println", "")>>

\* how many calls precede the return, by the kind of the result
CallsMade ==
    CASE result = Ok -> 5
      [] result.err.kind = "x509" -> 4
      [] result.err.kind = "pem" -> 3
      [] result.err.kind = "io" -> 2
      [] Display(result.err) = PATH_MSG -> 1
      [] OTHER -> 0

C9_Order ==
    /\ Len(args) # 1 => trace = <<>>
    /\ Len(args) = 1 =>
          /\ Len(trace) <= 5
          /\ trace = SubSeq(Pipeline(args[1]), 1, Len(trace))
    /\ Len(answers.is_file) <= 1
    /\ Len(answers.read) <= 1
    /\ (answers.is_file # <<>> /\ ~answers.is_file[1]) => ~Called("read_to_string")
    /\ Done <=> result.status \in {"ok", "err"}
    /\ Done => Len(trace) = CallsMade

\* the position of a statement in execute
Rank(l) ==
    CASE l = "args" -> 0
      [] l = "is_file" -> 1
      [] l = "read" -> 2
      [] l = "pem" -> 3
      [] l = "x509" -> 4
      [] l = "print" -> 5
      [] l = "done" -> 6

\* a run that has not returned can take its next step
C9_NotStuck == ~Done => ENABLED Step

\* a run only moves forward; after execute has returned, the only thing that
\* follows is another invocation, on a fresh state
C9_Forward ==
    /\ ~Done => Rank(pc') > Rank(pc)
    /\ Done => (pc' = "args" /\ trace' = <<>> /\ result' = Running /\ stdout' = <<>>)

\* C9: the calls of a run are a prefix of the fixed pipeline is_file,
\* read_to_string, pem_to_der, parse_x509_der, println, the capabilities getting
\* the sole argument unchanged and at most one call each; no call is made when the
\* argument count is not 1, read_to_string is not called when is_file was false;
\* the first failing checkpoint returns the error with no later call made; every
\* step moves forward in the pipeline and a run that has not returned can always
\* step, so every run returns, with exactly one of Ok and Err.
C9_LinearPipeline ==
    /\ []C9_Order
    /\ []C9_NotStuck
    /\ [][C9_Forward]_vars

C9_Witness ==
    /\ Done
    /\ args = <<"does-not-exist">>
    /\ answers.is_file = <<FALSE>>
    /\ trace = <<Call("is_file", "does-not-exist")>>

\* the text starts with a PEM block whose body is base64 and starts with a
\* certificate
BeginsWithCertBlock(c) ==
    /\ Len(c) >= 3
    /\ c[1] = BEGIN_CERT
    /\ c[2] \in {B64_CERT_A, B64_CERT_B}
    /\ \E k \in 3..Len(c) :
          /\ c[k] = END_CERT
          /\ \A j \in 2..(k - 1) : c[j] \in B64Lines

====
